---- MODULE Spec2Model ----
(***************************************************************************)
(* The stopwatch page of Nixie (src/src/ui/stopwatch.rs): the three-state  *)
(* machine behind the start and clear buttons, the timer it drives, the    *)
(* lap list and the periodic display refresh.                              *)
(*                                                                         *)
(* Time is counted in milliseconds.  Lap durations, which the code holds   *)
(* as f64 seconds, are held here as exact millisecond counts: the model    *)
(* does not cover floating-point rounding.                                 *)
(***************************************************************************)
EXTENDS Integers, Sequences, FiniteSets, TLC

\* ------------------------------------------------------------------ bounds
\* The clock is advanced at most MaxAdvances times, and no lap is recorded
\* once the list holds MaxLaps laps.
MaxAdvances == 3
MaxLaps == 2
\* Completed Running intervals are counted up to MaxRuns.
MaxRuns == 2

\* The amounts by which the clock may advance between two events.
Steps == {50, 1000}

\* For the display: finer amounts, and at most MaxFineAdvances of them.
MaxFineAdvances == 5
FineSteps == {90, 340, 1000}

\* ------------------------------------------------------------------- state
VARIABLES
    now,          \* the monotonic clock (Instant::now()), in ms
    advances,     \* how many times the clock has been advanced
    timer,        \* StopwatchPage.timer: [start_time, elapsed]
    state,        \* StopwatchPage.state
    laps,         \* StopwatchPage.laps, front of the list first
    current_lap,  \* StopwatchPage.current_lap
    labels,       \* the four time labels, each <<>> until update_time sets it
    start_btn,    \* label and colour of the start button
    clear_btn,    \* label, sensitivity and colour of the clear button
    css,          \* the style classes of time_container
    aborted,      \* the process died in a panicking handler
    timeout_active, \* the timeout source is installed and will fire again
    op,           \* history: the last operation that ran
    ran,          \* history: ms spent in Running since the last clear
    sessionLaps,  \* history: laps recorded since the last clear
    runs,         \* history: Running intervals completed since the last clear,
                  \* counted up to MaxRuns
    sinceLap      \* history: ms spent in Running since the last lap request,
                  \* or since the last clear when no lap followed it

page == <<timer, state, laps, current_lap, labels, start_btn, clear_btn, css>>
vars == <<now, advances, timer, state, laps, current_lap, labels, start_btn, clear_btn,
          css, aborted, timeout_active, op, ran, sessionLaps, runs, sinceLap>>

\* enum State
States == {"Stopped", "Reset", "Running"}

\* The style classes the page puts on time_container.
StyleClasses == {"running-stopwatch", "paused-stopwatch", "stopped-stopwatch"}

\* Option<T> as a sequence of length at most one.
None == <<>>
Some(x) == <<x>>

\* ------------------------------------------------------------------- timer
\* stopwatch::Stopwatch, the external timer the page owns.
sw_new == [start_time |-> None, elapsed |-> 0]

sw_is_running(sw) == sw.start_time # None

sw_elapsed(sw, t) ==
    IF sw_is_running(sw) THEN sw.elapsed + (t - sw.start_time[1])
                         ELSE sw.elapsed

sw_start(sw, t) ==
    IF sw_is_running(sw) THEN sw
                         ELSE [sw EXCEPT !.start_time = Some(t)]

sw_stop(sw, t) ==
    IF sw_is_running(sw)
        THEN [start_time |-> None, elapsed |-> sw_elapsed(sw, t)]
        ELSE sw

sw_reset(sw) == [start_time |-> None, elapsed |-> 0]

\* self.timer.get().elapsed() at the current instant
Elapsed == sw_elapsed(timer, now)

\* -------------------------------------------------------------------- laps
\* StopwatchLap::new(duration, index)
StopwatchLap(duration, index) == [duration |-> duration, index |-> index]

RECURSIVE SumDurations(_, _)
SumDurations(list, i) ==
    IF i > Len(list) THEN 0
                     ELSE list[i].duration + SumDurations(list, i + 1)

total_laps_duration == SumDurations(laps, 1)

\* -------------------------------------------------------------- operations
\* start() as it would be if starting also emptied the lap list.
start_clears_laps ==
    /\ timer' = sw_start(timer, now)
    /\ state' = "Running"
    /\ start_btn' = [label |-> "Pause", color |-> "Yellow"]
    /\ clear_btn' = [label |-> "Lap", sensitive |-> TRUE, color |-> "Purple"]
    /\ css' = (css \cup {"running-stopwatch"})
                  \ {"paused-stopwatch", "stopped-stopwatch"}
    /\ laps' = <<>>
    /\ current_lap' = 0
    /\ UNCHANGED labels

\* start() as it would be with Stopwatch::restart() for Stopwatch::start().
start_restart ==
    /\ timer' = [start_time |-> Some(now), elapsed |-> 0]
    /\ state' = "Running"
    /\ start_btn' = [label |-> "Pause", color |-> "Yellow"]
    /\ clear_btn' = [label |-> "Lap", sensitive |-> TRUE, color |-> "Purple"]
    /\ css' = (css \cup {"running-stopwatch"})
                  \ {"paused-stopwatch", "stopped-stopwatch"}
    /\ UNCHANGED <<laps, current_lap, labels>>

start ==
    /\ timer' = sw_start(timer, now)
    /\ state' = "Running"
    /\ start_btn' = [label |-> "Pause", color |-> "Yellow"]
    /\ clear_btn' = [label |-> "Lap", sensitive |-> TRUE, color |-> "Purple"]
    /\ css' = (css \cup {"running-stopwatch"})
                  \ {"paused-stopwatch", "stopped-stopwatch"}
    /\ UNCHANGED <<laps, current_lap, labels>>

\* stop() as it would be without the call of Stopwatch::stop().
stop_timer_left_running ==
    /\ timer' = timer
    /\ state' = "Stopped"
    /\ start_btn' = [label |-> "Resume", color |-> "Purple"]
    /\ clear_btn' = [label |-> "Clear", sensitive |-> TRUE, color |-> "Red"]
    /\ css' = (css \cup {"paused-stopwatch"})
                  \ {"running-stopwatch", "stopped-stopwatch"}
    /\ UNCHANGED <<laps, current_lap, labels>>

stop ==
    /\ timer' = sw_stop(timer, now)
    /\ state' = "Stopped"
    /\ start_btn' = [label |-> "Resume", color |-> "Purple"]
    /\ clear_btn' = [label |-> "Clear", sensitive |-> TRUE, color |-> "Red"]
    /\ css' = (css \cup {"paused-stopwatch"})
                  \ {"running-stopwatch", "stopped-stopwatch"}
    /\ UNCHANGED <<laps, current_lap, labels>>

\* clear() as it would be with the clear button left sensitive.
clear_leaves_sensitive ==
    /\ timer' = sw_reset(timer)
    /\ state' = "Reset"
    /\ start_btn' = [label |-> "Start", color |-> "Purple"]
    /\ clear_btn' = [label |-> "Lap", sensitive |-> TRUE, color |-> "Purple"]
    /\ css' = (css \cup {"stopped-stopwatch"})
                  \ {"running-stopwatch", "paused-stopwatch"}
    /\ UNCHANGED <<laps, current_lap, labels>>

\* clear() as it would be without the removal of "paused-stopwatch".
clear_keeps_paused_class ==
    /\ timer' = sw_reset(timer)
    /\ state' = "Reset"
    /\ start_btn' = [label |-> "Start", color |-> "Purple"]
    /\ clear_btn' = [label |-> "Lap", sensitive |-> FALSE, color |-> "Purple"]
    /\ css' = (css \cup {"stopped-stopwatch"}) \ {"running-stopwatch"}
    /\ UNCHANGED <<laps, current_lap, labels>>

clear ==
    /\ timer' = sw_reset(timer)
    /\ state' = "Reset"
    /\ start_btn' = [label |-> "Start", color |-> "Purple"]
    /\ clear_btn' = [label |-> "Lap", sensitive |-> FALSE, color |-> "Purple"]
    /\ css' = (css \cup {"stopped-stopwatch"})
                  \ {"running-stopwatch", "paused-stopwatch"}
    /\ UNCHANGED <<laps, current_lap, labels>>

\* lap() as it would be with the new lap appended at the back of the list.
lap_append ==
    /\ current_lap' = current_lap + 1
    /\ LET time == Elapsed
           duration == time - total_laps_duration
       IN  laps' = Append(laps, StopwatchLap(duration, current_lap'))
    /\ UNCHANGED <<timer, state, labels, start_btn, clear_btn, css>>

\* lap() as it would be without the increment of current_lap.
lap_no_increment ==
    /\ current_lap' = current_lap
    /\ LET time == Elapsed
           duration == time - total_laps_duration
       IN  laps' = <<StopwatchLap(duration, current_lap + 1)>> \o laps
    /\ UNCHANGED <<timer, state, labels, start_btn, clear_btn, css>>

lap ==
    /\ current_lap' = current_lap + 1
    /\ LET time == Elapsed
           duration == time - total_laps_duration
       IN  laps' = <<StopwatchLap(duration, current_lap')>> \o laps
    /\ UNCHANGED <<timer, state, labels, start_btn, clear_btn, css>>

\* update_time() as it would be with the tenths rounded, not truncated.
update_time_rounded ==
    LET duration == Elapsed
        ms == ((duration + 50) \div 100) % 10
    IN  /\ labels' = [hours   |-> Some(duration \div 3600000),
                      minutes |-> Some(duration \div 60000),
                      seconds |-> Some(duration \div 1000),
                      miliseconds |-> Some(ms)]
        /\ UNCHANGED <<timer, state, laps, current_lap, start_btn, clear_btn, css>>

update_time ==
    LET duration == Elapsed
        ms == (duration \div 100) % 10
    IN  /\ labels' = [hours   |-> Some(duration \div 3600000),
                      minutes |-> Some(duration \div 60000),
                      seconds |-> Some(duration \div 1000),
                      miliseconds |-> Some(ms)]
        /\ UNCHANGED <<timer, state, laps, current_lap, start_btn, clear_btn, css>>

\* The start handler as it would be with the Stopped arm calling stop().
handle_on_start_btn_click_stopped_stops ==
    /\ CASE state = "Reset"   -> start
         [] state = "Stopped" -> stop
         [] state = "Running" -> stop
    /\ UNCHANGED aborted

handle_on_start_btn_click ==
    /\ CASE state = "Reset"   -> start
         [] state = "Stopped" -> start
         [] state = "Running" -> stop
    /\ UNCHANGED aborted

\* The arm for State::Reset is unimplemented!(): the handler panics.
handle_on_clear_btn_click ==
    CASE state = "Stopped" -> clear /\ UNCHANGED aborted
      [] state = "Running" -> lap /\ UNCHANGED aborted
      [] OTHER             -> aborted' = TRUE /\ UNCHANGED page

\* The callback as it would be with the labels refreshed in every state.
timeout_callback_refreshes_always ==
    /\ update_time
    /\ timeout_active' = TRUE
    /\ UNCHANGED aborted

\* The callback as it would be returning Continue(false).
timeout_callback_one_shot ==
    /\ CASE state = "Running" -> update_time
         [] state = "Reset"   -> update_time
         [] OTHER             -> UNCHANGED page
    /\ timeout_active' = FALSE
    /\ UNCHANGED aborted

\* The callback of timeout_add_local: refresh the labels, keep the timeout.
timeout_callback ==
    /\ CASE state = "Running" -> update_time
         [] state = "Reset"   -> update_time
         [] OTHER             -> UNCHANGED page
    /\ timeout_active' = TRUE
    /\ UNCHANGED aborted

\* ----------------------------------------------------------------- actions
\* Default for StopwatchPage, then constructed(), which installs the timeout.  What the template gives
\* the buttons and the container is not set by the code: the labels and
\* colours are the template's, the clear button may be sensitive or not, and
\* the container may carry any of the three style classes.
Init ==
    /\ now = 0
    /\ advances = 0
    /\ timer = sw_new
    /\ state = "Stopped"
    /\ laps = <<>>
    /\ current_lap = 0
    /\ labels = [hours |-> None, minutes |-> None, seconds |-> None,
                 miliseconds |-> None]
    /\ start_btn = [label |-> "template", color |-> "template"]
    /\ clear_btn \in [label : {"template"}, sensitive : BOOLEAN,
                      color : {"template"}]
    /\ css \in SUBSET StyleClasses
    /\ aborted = FALSE
    /\ timeout_active = TRUE
    /\ op = "new"
    /\ ran = 0
    /\ sessionLaps = 0
    /\ runs = 0
    /\ sinceLap = 0

\* Time passes.
Advance ==
    \E d \in Steps :
        /\ ~aborted
        /\ advances < MaxAdvances
        /\ advances' = advances + 1
        /\ now' = now + d
        /\ ran' = IF state = "Running" THEN ran + d ELSE ran
        /\ sinceLap' = IF state = "Running" THEN sinceLap + d ELSE sinceLap
        /\ op' = "advance"
        /\ UNCHANGED <<page, aborted, timeout_active, sessionLaps, runs>>

\* Time passes, in the finer amounts.
AdvanceFine ==
    \E d \in FineSteps :
        /\ ~aborted
        /\ advances < MaxFineAdvances
        /\ advances' = advances + 1
        /\ now' = now + d
        /\ ran' = IF state = "Running" THEN ran + d ELSE ran
        /\ sinceLap' = IF state = "Running" THEN sinceLap + d ELSE sinceLap
        /\ op' = "advance"
        /\ UNCHANGED <<page, aborted, timeout_active, sessionLaps, runs>>

\* The primary action: the start button's clicked handler runs.
Primary ==
    /\ ~aborted
    /\ handle_on_start_btn_click
    /\ op' = "primary"
    /\ runs' = IF state = "Running" /\ runs < MaxRuns THEN runs + 1 ELSE runs
    /\ UNCHANGED <<now, advances, timeout_active, ran, sessionLaps, sinceLap>>

\* The secondary action: the clear button's clicked handler runs.
Secondary ==
    /\ ~aborted
    /\ state = "Running" => Len(laps) < MaxLaps
    /\ handle_on_clear_btn_click
    /\ op' = "secondary"
    /\ ran' = IF state = "Stopped" THEN 0 ELSE ran
    /\ runs' = IF state = "Stopped" THEN 0 ELSE runs
    /\ sinceLap' = IF state \in {"Stopped", "Running"} THEN 0 ELSE sinceLap
    /\ sessionLaps' = CASE state = "Stopped" -> 0
                        [] state = "Running" -> sessionLaps + 1
                        [] OTHER             -> sessionLaps
    /\ UNCHANGED <<now, advances, timeout_active>>

\* A click reaches the handler only while the button is sensitive.
ClickSecondary ==
    /\ clear_btn.sensitive
    /\ Secondary

\* The periodic timeout fires.
Timeout ==
    /\ ~aborted
    /\ timeout_active
    /\ timeout_callback
    /\ op' = "timeout"
    /\ UNCHANGED <<now, advances, ran, sessionLaps, runs, sinceLap>>

\* The page driven through its widgets.
Next == Advance \/ Primary \/ ClickSecondary \/ Timeout
Spec == Init /\ [][Next]_vars

\* The handlers called in any state, whatever the button's sensitivity.
NextDirect == Advance \/ Primary \/ Secondary \/ Timeout
SpecDirect == Init /\ [][NextDirect]_vars

\* The display followed at a finer grain: the page is started and paused
\* and the timeout fires while time passes in the finer amounts.
NextDisplay == AdvanceFine \/ Primary \/ Timeout
SpecDisplay == Init /\ [][NextDisplay]_vars

TypeOK ==
    /\ now \in Nat
    /\ advances \in 0..MaxAdvances
    /\ state \in States
    /\ aborted \in BOOLEAN
    /\ Len(laps) <= MaxLaps
    /\ current_lap \in Nat

\* ------------------------------------------------------------------ claims
LapRecorded == op = "secondary" /\ state = "Running"

\* C1: in every reachable state where the state is Stopped, the secondary
\* action leaves the lap list empty, however many laps were recorded before.
C1_ClearEmptiesLedger ==
    [][(Secondary /\ state = "Stopped") => laps' = <<>>]_vars

\* C2: clear resets the lap counter, so the first lap recorded after any
\* clear has index 1 and the k-th lap recorded since the clear has index k.
C2_LapIndexCountsFromClear ==
    LapRecorded => laps[1].index = sessionLaps

\* C3: every lap in the list has a duration >= 0 in every reachable state.
C3_DurationsNonNegative ==
    \A i \in 1..Len(laps) : laps[i].duration >= 0

\* C4: in every reachable state the durations of the laps in the list sum
\* to no more than the timer's elapsed time.
C4_SumWithinElapsed ==
    total_laps_duration <= Elapsed

\* C5: the secondary action taken in state Reset completes without aborting
\* and leaves the state Reset, elapsed zero, the list empty and the counter 0.
C5_SecondaryInResetIsTotal ==
    [][(Secondary /\ state = "Reset") =>
           /\ ~aborted'
           /\ state' = "Reset"
           /\ Elapsed' = 0
           /\ laps' = <<>>
           /\ current_lap' = 0]_vars

\* C6: the secondary action taken in state Running leaves the state Running,
\* puts exactly one new lap at the front of the list, keeps every earlier
\* lap as it was and in the same order, and leaves the timer as it was.
C6_LapOnlyPrepends ==
    [][(Secondary /\ state = "Running") =>
           /\ state' = "Running"
           /\ ~aborted'
           /\ Len(laps') = Len(laps) + 1
           /\ Tail(laps') = laps
           /\ timer' = timer]_vars

C6_Witness ==
    LapRecorded /\ Len(laps) = 2 /\ laps[1].duration > 0

\* C7: the page starts Stopped with elapsed zero, no laps and counter 0; the
\* primary action takes Reset and Stopped to Running with the timer started
\* and Running to Stopped with the timer stopped, and changes neither the
\* elapsed time at that instant, nor the lap list, nor the lap counter.
C7_PrimaryToggles ==
    /\ state = "Stopped" /\ Elapsed = 0 /\ laps = <<>> /\ current_lap = 0
    /\ [][Primary =>
           /\ state' = (IF state = "Running" THEN "Stopped" ELSE "Running")
           /\ sw_is_running(timer') <=> (state # "Running")
           /\ Elapsed' = Elapsed
           /\ UNCHANGED <<laps, current_lap, aborted>>]_vars

C7_Witness ==
    op = "primary" /\ state = "Stopped" /\ Elapsed > 0 /\ runs = 2

\* C8: the elapsed time read in state Stopped is the total length of the
\* Running intervals completed since the last clear: time that passes while
\* Stopped is not counted and earlier intervals are not lost on resume.
C8_ElapsedIsRunningTime ==
    state = "Stopped" => Elapsed = ran

C8_Witness ==
    /\ state = "Stopped" /\ op = "advance"
    /\ runs >= 2 /\ ran > 0 /\ now > ran

\* C9: the secondary action in state Stopped leaves the state Reset and
\* elapsed 0, and elapsed stays 0 while time passes in Reset; the primary
\* action in state Running leaves the state Stopped, and elapsed does not
\* advance while time passes in Stopped.
C9_ElapsedFrozen ==
    [][/\ (Secondary /\ state = "Stopped") => (state' = "Reset" /\ Elapsed' = 0)
       /\ (Primary /\ state = "Running") => state' = "Stopped"
       /\ (now' > now /\ state = "Reset") => (Elapsed = 0 /\ Elapsed' = 0)
       /\ (now' > now /\ state = "Stopped") => Elapsed' = Elapsed]_vars

C9_Witness ==
    op = "advance" /\ state = "Reset" /\ ran = 0 /\ Len(laps) > 0

\* C10: in every reachable state the lap indices strictly decrease from the
\* front of the list to the back, so no two laps share an index.
C10_IndicesDecrease ==
    \A i \in 1..Len(laps), j \in 1..Len(laps) :
        i < j => laps[i].index > laps[j].index

C10_Witness ==
    Len(laps) >= 2 /\ state = "Running" /\ runs >= 1 /\ op = "secondary"

\* C11: each recorded lap's duration is the Running time that passed since
\* the previous lap request, or since the last clear for the first lap
\* after it, paused time excluded.
C11_LapIsRunningTimeSinceLap ==
    [][(Secondary /\ state = "Running") => laps'[1].duration = sinceLap]_vars

\* The labels l show the elapsed time e: whole hours, whole minutes, whole
\* seconds and the tenths of the current second.
Shows(l, e) ==
    /\ \A f \in {"hours", "minutes", "seconds", "miliseconds"} : Len(l[f]) = 1
    /\ l.hours[1] * 3600000 <= e /\ e < (l.hours[1] + 1) * 3600000
    /\ l.minutes[1] * 60000 <= e /\ e < (l.minutes[1] + 1) * 60000
    /\ l.seconds[1] * 1000 <= e /\ e < (l.seconds[1] + 1) * 1000
    /\ l.miliseconds[1] \in 0..9
    /\ e - l.seconds[1] * 1000 - l.miliseconds[1] * 100 \in 0..99

\* C12: the periodic tick recomputes the displayed time from elapsed exactly
\* when the state is Running or Reset; in state Stopped a tick leaves the
\* labels as they were; a tick in state Reset shows zero.
C12_TickRefreshesUnlessStopped ==
    [][Timeout =>
           /\ state \in {"Running", "Reset"} => Shows(labels', Elapsed)
           /\ state = "Stopped" => labels' = labels
           /\ state = "Reset" => Shows(labels', 0)]_vars

C12_Witness ==
    /\ op = "timeout" /\ state = "Stopped"
    /\ labels.seconds = Some(0) /\ Elapsed >= 1000

\* What the widgets show in state s according to the claim.
StyleOf(s) ==
    CASE s = "Running" -> "running-stopwatch"
      [] s = "Stopped" -> "paused-stopwatch"
      [] s = "Reset"   -> "stopped-stopwatch"

StartButtonOf(s) ==
    CASE s = "Running" -> [label |-> "Pause", color |-> "Yellow"]
      [] s = "Stopped" -> [label |-> "Resume", color |-> "Purple"]
      [] s = "Reset"   -> [label |-> "Start", color |-> "Purple"]

ClearButtonOf(s) ==
    CASE s = "Running" -> [label |-> "Lap", sensitive |-> TRUE, color |-> "Purple"]
      [] s = "Stopped" -> [label |-> "Clear", sensitive |-> TRUE, color |-> "Red"]
      [] s = "Reset"   -> [label |-> "Lap", sensitive |-> FALSE, color |-> "Purple"]

\* C13: after every transition exactly one of the three style classes is on
\* the time container, the one of the new state (running for Running,
\* paused for Stopped, stopped for Reset), and the buttons' labels and
\* colours are determined by the new state alone.
C13_PresentationFollowsState ==
    [][(Primary \/ Secondary) =>
           /\ css' \cap StyleClasses = {StyleOf(state')}
           /\ start_btn' = StartButtonOf(state')
           /\ clear_btn' = ClearButtonOf(state')]_vars

C13_Witness ==
    /\ op = "secondary" /\ state = "Reset"
    /\ css = {"stopped-stopwatch"} /\ start_btn.label = "Start"

\* C14: in every reachable state where the state is Reset the clear button
\* is insensitive, and after every primary action (start or stop) it is
\* sensitive; so, clicks reaching only a sensitive button, the clear handler
\* never runs in state Reset and its unimplemented arm is never reached.
C14_ClearButtonGatesReset ==
    /\ [](state = "Reset" => ~clear_btn.sensitive)
    /\ [](~aborted)
    /\ [][/\ Primary => clear_btn'.sensitive
          /\ ~(Secondary /\ state = "Reset")]_vars

C14_Witness ==
    /\ state = "Reset" /\ ~clear_btn.sensitive /\ ~aborted
    /\ op = "timeout" /\ Len(laps) = 1

\* C15: in every reachable state the timer is running exactly when the state
\* is Running; so the primary action starts only a timer that is not running
\* and stops only a running one, and a lap is recorded only while the timer
\* is running.
C15_TimerRunsIffRunning ==
    /\ [](sw_is_running(timer) <=> state = "Running")
    /\ [][/\ (Primary /\ state' = "Running") => ~sw_is_running(timer)
          /\ (Primary /\ state' = "Stopped") => sw_is_running(timer)
          /\ (laps' # laps) => sw_is_running(timer)]_vars

C15_Witness ==
    /\ op = "primary" /\ state = "Stopped" /\ runs = 1
    /\ ~sw_is_running(timer) /\ timer.elapsed > 0

\* C16: in every reachable state the lap counter is the number of laps in
\* the list, and the indices read from front to back are n, n-1, ..., 1
\* where n is the length of the list.
C16_CounterIsLength ==
    /\ current_lap = Len(laps)
    /\ \A i \in 1..Len(laps) : laps[i].index = Len(laps) - i + 1

C16_Witness ==
    Len(laps) = 2 /\ current_lap = 2 /\ state = "Reset"

\* C17: the primary action and the tick never change the lap list or the lap
\* counter, the tick never changes the state or the timer, the list changes
\* only by a secondary action, and a lap keeps its duration and index for as
\* long as it is in the list.
C17_LedgerFrame ==
    [][/\ (Primary \/ Timeout) => UNCHANGED <<laps, current_lap>>
       /\ Timeout => UNCHANGED <<state, timer>>
       /\ (laps' # laps) => Secondary
       /\ \A i \in 1..Len(laps), j \in 1..Len(laps') :
              laps'[j].index = laps[i].index => laps'[j] = laps[i]]_vars

C17_Witness ==
    /\ op = "primary" /\ state = "Running" /\ Len(laps) = 2
    /\ runs >= 1 /\ laps[2].duration > 0

\* C18: the sub-second field the display shows is one decimal digit d in
\* 0..9, the tenths of the elapsed time: elapsed = 1000 q + 100 d + r ms for
\* some whole q and some r in 0..99, that is (elapsed / 100) mod 10 with
\* integer division.
C18_TenthsDigit ==
    [][(Timeout /\ state \in {"Running", "Reset"}) =>
           /\ Len(labels'.miliseconds) = 1
           /\ LET d == labels'.miliseconds[1]
              IN  /\ d \in 0..9
                  /\ \E q \in 0..(Elapsed \div 1000) :
                         Elapsed - 1000 * q - 100 * d \in 0..99]_vars

C18_Witness ==
    /\ op = "timeout" /\ state = "Running"
    /\ labels.miliseconds = Some(7) /\ Elapsed = 1770

\* C19: the machine has no terminal state: in every reachable state the
\* primary action can be taken and changes the state, the tick can fire
\* again, and Running, Stopped and Reset can each be reached again (the
\* primary action alternates between Running and the other two, and right
\* after a pause the secondary action can be taken and leads to Reset).
C19_NoTerminalState ==
    /\ [](ENABLED Primary /\ ENABLED Timeout)
    /\ []((state = "Stopped" /\ op = "primary") => ENABLED ClickSecondary)
    /\ [][/\ Primary => /\ state' # state
                        /\ state # "Running" => state' = "Running"
                        /\ state = "Running" => state' = "Stopped"
          /\ (ClickSecondary /\ state = "Stopped") => state' = "Reset"
          /\ Timeout => timeout_active']_vars

C19_Witness ==
    /\ op = "primary" /\ state = "Running" /\ timeout_active
    /\ sessionLaps = 0 /\ current_lap > 0 /\ labels.seconds # None
====
